---- MODULE Spec2Model ----
(***************************************************************************)
(* Model of the Google Analytics settings downloader                       *)
(* (src/settings_downloader_function/main.py): ga_settings_download walks  *)
(* the UA Management API and the GA4 Admin API, collects one list of       *)
(* records per entity type, stages each non-empty list as a newline        *)
(* delimited file in Cloud Storage and loads it into BigQuery.             *)
(*                                                                         *)
(* The program is sequential.  pc is the position of the single thread of  *)
(* control; every remote call is one step, taken together with the code    *)
(* that runs up to the next remote call.  Every remote call either returns *)
(* or raises; nothing in main.py catches an exception.                     *)
(*                                                                         *)
(* The property overview job                                               *)
(* (src/report_tables/property_overview/function/main.py) is a second      *)
(* program: its main runs one query over the day's partitions of the       *)
(* landed tables and appends the result to the overview table.  It is      *)
(* triggered on its own; OverviewSpec is its specification.                *)
(***************************************************************************)
EXTENDS Integers, Sequences, FiniteSets, Bags, TLC

\* Bounds of the model: sizes of the remote account trees.
MaxUaAccounts == 2
MaxAccounts == 2
MaxProps == 2
MaxItems == 2
MaxSummaries == 4
\* Bounds of the overview job: properties, streams of a type, links of a kind
\* in the landed tables, and invocations of main.
MaxOverviewProps == 2
MaxStreams == 2
MaxLinks == 1
MaxRuns == 2

VARIABLES
  pc,                 \* position in ga_settings_download
  api,                \* what the remote APIs hold during this run
  account_summaries,  \* ga_settings_download: UA account summaries
  lists,              \* ga_settings_download: dict, in insertion order
  filter_list,        \* get_ua_filters / get_ua_filter_links accumulator
  property_entities,  \* get_ua_property_level_settings: its dict `lists`
  entities,           \* list_ga4_entities: its dict
  ai, pi, vi, si,     \* loop positions: account, property, stream kind, stream
  props,              \* list_ga4_entities: pager of list_properties
  streams,            \* list_ga4_entities: pager of the current stream list
  data_retention_settings, \* list_ga4_entities: local of the property loop
  unpaused,           \* remote calls issued since the last time.sleep
  maxRun,             \* longest run of remote calls with no sleep between
  exc,                \* the place of the call whose exception left the run
  bucket,             \* Cloud Storage: blobs in upload order
  jobs,               \* BigQuery: load jobs in submission order
  ki,                 \* position of `for key in lists`
  result,             \* return value of ga_settings_download
  warehouse,          \* overview job: the landed tables the query reads
  destination,        \* overview job: the rows of table TABLE_ID
  query_job,          \* overview job: state of the query job of this invocation
  runs,               \* overview job: invocations of main so far
  main_pc             \* overview job: position in main

callVars == <<unpaused, maxRun, exc>>
uaVars == <<account_summaries, filter_list, property_entities>>
ga4Vars == <<entities, props, streams, data_retention_settings>>
loopVars == <<ai, pi, vi, si>>
loadVars == <<bucket, jobs, ki, result>>
overviewVars == <<warehouse, destination, query_job, runs, main_pc>>
vars == <<pc, api, lists, uaVars, ga4Vars, loopVars, callVars, loadVars, overviewVars>>

Min(a, b) == IF a < b THEN a ELSE b
Max(a, b) == IF a > b THEN a ELSE b

(***************************************************************************)
(* Python values.  A getter returns a list or None; `x or []` is [] for    *)
(* None and for the empty list.                                            *)
(***************************************************************************)
None == [none |-> TRUE, items |-> <<>>]
Some(s) == [none |-> FALSE, items |-> s]
OrEmpty(v) == IF v.none \/ v.items = <<>> THEN <<>> ELSE v.items

\* dict[key] = value on a dict kept in insertion order
SetKey(d, key, value) ==
  IF \E i \in DOMAIN d : d[i].key = key
    THEN [i \in DOMAIN d |-> IF d[i].key = key THEN [key |-> key, data |-> value] ELSE d[i]]
    ELSE Append(d, [key |-> key, data |-> value])

HasKey(d, key) == \E i \in DOMAIN d : d[i].key = key
GetKey(d, key) == d[CHOOSE i \in DOMAIN d : d[i].key = key].data
Keys(d) == {d[i].key : i \in DOMAIN d}

(***************************************************************************)
(* The remote side.  The APIs return their items in an order of their own  *)
(* (here: descending id), which is not the order of the names.             *)
(***************************************************************************)
Ids(n) == [j \in 1..n |-> n - j + 1]

\* UA Management API: account k has k - 1 web properties.  The JSON of an
\* account with no web property has an empty 'webProperties' list, or (api.omitted)
\* no 'webProperties' key at all.
UaAccountItems ==
  [k \in 1..api.uaAccounts |->
    LET id == Ids(api.uaAccounts)[k]
        webProperties == [i \in 1..(id - 1) |-> [id |-> id * 10 + Ids(id - 1)[i]]]
    IN IF webProperties = <<>> /\ api.omitted
         THEN [id |-> id]
         ELSE [id |-> id, webProperties |-> webProperties]]

UaItems(kind, parent) ==
  [j \in 1..api.items |-> [kind |-> kind, parent |-> parent, id |-> Ids(api.items)[j]]]

\* GA4 Admin API
PropId(a, i) == a * 10 + i
AccountPath(a) == <<"accounts", a>>
PropertyPath(id) == <<"properties", id>>

ApiPropertySummaries(a) ==
  [i \in 1..api.nProps[a] |->
    LET id == PropId(a, Ids(api.nProps[a])[i]) IN
    [property |-> PropertyPath(id), display_name |-> <<"Property", id>>]]

ApiAccountSummaries ==
  [k \in DOMAIN api.order |->
    LET a == api.order[k] IN
    [name |-> <<"accountSummaries", a>>,
     display_name |-> <<"Account", a>>,
     account |-> AccountPath(a),
     property_summaries |-> ApiPropertySummaries(a)]]

ApiAccounts ==
  [k \in DOMAIN api.order |->
    LET a == api.order[k] IN
    [name |-> AccountPath(a), display_name |-> <<"Account", a>>, create_time |-> a]]

\* list_properties(filter = "parent:<account>")
ApiProperties(account) ==
  LET a == account[2] IN
  [i \in 1..api.nProps[a] |->
    LET id == PropId(a, Ids(api.nProps[a])[i]) IN
    [name |-> PropertyPath(id), create_time |-> id, parent |-> account,
     display_name |-> <<"Property", id>>]]

ApiSettings(name) == [name |-> name, state |-> "ENABLED"]

\* a list call with parent = a property: api.items items, none for the bare property
ItemCount(property) == IF property[2] = api.bare THEN 0 ELSE api.items

ApiChildren(parent, collection) ==
  [j \in 1..ItemCount(parent) |->
    LET id == Ids(ItemCount(parent))[j] IN
    [name |-> parent \o <<collection, id>>,
     display_name |-> <<collection, id>>,
     create_time |-> id]]

\* list_measurement_protocol_secrets(parent = a stream): stream s holds s secrets,
\* stream 1 none
ApiSecrets(stream) ==
  LET n == IF stream[4] = 1 THEN 0 ELSE stream[4] IN
  [j \in 1..n |->
    [name |-> stream \o <<"measurementProtocolSecrets", Ids(n)[j]>>,
     display_name |-> <<"Secret", Ids(n)[j]>>,
     secret_value |-> <<"value", stream[4], Ids(n)[j]>>]]

(***************************************************************************)
(* Rate limiting.  A remote call at a place of the code is preceded (pre)  *)
(* and followed (post) by time.sleep(REQUEST_DELAY) or not.                *)
(***************************************************************************)
Run(pre) == Min((IF pre THEN 0 ELSE unpaused) + 1, 2)

Paced(pre, post) ==
  /\ maxRun' = Max(maxRun, Run(pre))
  /\ unpaused' = IF post THEN 0 ELSE Run(pre)

\* The call returns.
Called(pre, post) ==
  /\ Paced(pre, post)
  /\ exc' = exc

\* The call raises: nothing catches it, ga_settings_download is left.
Raised(pre) ==
  /\ pc' = "aborted"
  /\ exc' = pc
  /\ Paced(pre, FALSE)

\* d[key] raises KeyError when the dict has no such key; nothing catches it
KeyError(d, key) == key \notin DOMAIN d

Failed ==
  /\ pc' = "aborted"
  /\ exc' = pc
  /\ UNCHANGED <<unpaused, maxRun>>

(***************************************************************************)
(* Initial state: ga_settings_download is entered, lists = {}.             *)
(***************************************************************************)
EmptyEntities ==
  [summaries |-> <<>>, accounts |-> <<>>, properties |-> <<>>,
   android_app_data_streams |-> <<>>, measurement_protocol_secrets |-> <<>>,
   conversion_events |-> <<>>, custom_dimensions |-> <<>>, custom_metrics |-> <<>>,
   dv360_link_proposals |-> <<>>, dv360_links |-> <<>>, firebase_links |-> <<>>,
   google_ads_links |-> <<>>, ios_app_data_streams |-> <<>>, web_data_streams |-> <<>>]

EmptyPropertyEntities ==
  [audiences |-> <<>>, google_ads_links |-> <<>>, cds |-> <<>>, cms |-> <<>>]

\* ga_settings_download is entered: lists = {}, nothing called, staged or loaded
Entered ==
  /\ pc = "ua_account_summaries"
  /\ account_summaries = <<>>
  /\ lists = <<>>
  /\ filter_list = <<>>
  /\ property_entities = EmptyPropertyEntities
  /\ entities = EmptyEntities
  /\ ai = 1 /\ pi = 1 /\ vi = 1 /\ si = 1
  /\ props = <<>>
  /\ streams = <<>>
  /\ data_retention_settings = ApiSettings(<<>>)
  /\ unpaused = 0
  /\ maxRun = 0
  /\ exc = "none"
  /\ bucket = <<>>
  /\ jobs = <<>>
  /\ ki = 1
  /\ result = "none"

\* the overview job is not invoked during a run of ga_settings_download
OverviewIdle ==
  /\ warehouse = [ga4_account_summaries |-> {}, ga4_data_streams |-> {},
                  ga4_google_ads_links |-> {}, ga4_dv360_links |-> {}]
  /\ destination = EmptyBag
  /\ query_job = "none"
  /\ runs = 0
  /\ main_pc = "main"

\* The run starts against some state of the two APIs: the UA side holds no
\* account or MaxUaAccounts of them; the GA4 side holds n accounts with p
\* property summaries each (MaxSummaries at most in all), except account e
\* (if any) which has none; a list
\* call returns m items, except under property b (if any) where it returns none.
\* The UA side leaves empty lists out of its JSON (o) or not.
Init ==
  /\ \E u \in {0, MaxUaAccounts}, n \in 0..MaxAccounts, p \in 0..MaxProps,
        e \in 0..MaxAccounts, m \in 0..MaxItems, o \in BOOLEAN :
       LET f == [a \in 1..MaxAccounts |-> IF a > n \/ a = e THEN 0 ELSE p]
       IN \E b \in {0} \cup {PropId(a, i) : a \in 1..MaxAccounts, i \in 1..MaxProps} :
            /\ e <= n
            /\ n = 0 => p = 0
            /\ n * p <= MaxSummaries
            /\ p = 0 => e = 0
            /\ b # 0 => (m > 0 /\ \E a \in 1..n : \E i \in 1..f[a] : b = PropId(a, i))
            /\ o => u > 0
            /\ api = [uaAccounts |-> u, items |-> m, order |-> Ids(n), nProps |-> f,
                      bare |-> b, omitted |-> o]
  /\ Entered
  /\ OverviewIdle

(***************************************************************************)
(* UA traversal (ga_settings_download, lines 61-89)                        *)
(***************************************************************************)
get_ua_account_summaries == Some(UaAccountItems)
get_ua_goals == Some(UaItems("goal", <<>>))
get_ua_views == Some(UaItems("view", <<>>))
\* get_ua_segments extends a local list and falls off its end: it returns None
get_ua_segments == None

UaAccountSummaries ==
  /\ pc = "ua_account_summaries"
  /\ \/ /\ Raised(FALSE)
        /\ UNCHANGED <<api, overviewVars, lists, uaVars, ga4Vars, loopVars, loadVars>>
     \/ /\ Called(FALSE, FALSE)
        /\ account_summaries' = get_ua_account_summaries.items
        /\ lists' = SetKey(lists, "ua_account_summaries", OrEmpty(get_ua_account_summaries))
        /\ pc' = "ua_goals"
        /\ UNCHANGED <<api, overviewVars, filter_list, property_entities, ga4Vars, loopVars, loadVars>>

UaGoals ==
  /\ pc = "ua_goals"
  /\ \/ /\ Raised(FALSE)
        /\ UNCHANGED <<api, overviewVars, lists, uaVars, ga4Vars, loopVars, loadVars>>
     \/ /\ Called(FALSE, FALSE)
        /\ lists' = SetKey(lists, "ua_goals", OrEmpty(get_ua_goals))
        /\ pc' = "ua_views"
        /\ UNCHANGED <<api, overviewVars, uaVars, ga4Vars, loopVars, loadVars>>

UaViews ==
  /\ pc = "ua_views"
  /\ \/ /\ Raised(FALSE)
        /\ UNCHANGED <<api, overviewVars, lists, uaVars, ga4Vars, loopVars, loadVars>>
     \/ /\ Called(FALSE, TRUE)
        /\ lists' = SetKey(lists, "ua_views", OrEmpty(get_ua_views))
        /\ pc' = "ua_filters"
        /\ ai' = 1
        /\ filter_list' = <<>>
        /\ UNCHANGED <<api, overviewVars, account_summaries, property_entities, ga4Vars, pi, vi, si, loadVars>>

\* get_ua_filters: one filters().list per account, then the assignment of line 73
UaFilters ==
  /\ pc = "ua_filters"
  /\ IF ai <= Len(account_summaries)
       THEN \/ /\ Raised(FALSE)
               /\ UNCHANGED <<api, overviewVars, lists, uaVars, ga4Vars, loopVars, loadVars>>
            \/ /\ Called(FALSE, TRUE)
               /\ filter_list' = filter_list \o UaItems("filter", <<account_summaries[ai].id>>)
               /\ ai' = ai + 1
               /\ UNCHANGED <<pc, api, overviewVars, lists, account_summaries, property_entities,
                              ga4Vars, pi, vi, si, loadVars>>
       ELSE /\ lists' = SetKey(lists, "ua_filters", OrEmpty(Some(filter_list)))
            /\ pc' = "ua_filter_links"
            /\ ai' = 1
            /\ filter_list' = <<>>
            /\ UNCHANGED <<api, overviewVars, account_summaries, property_entities, ga4Vars, pi, vi, si,
                           callVars, loadVars>>

\* get_ua_filter_links: one profileFilterLinks().list per account, then line 77
UaFilterLinks ==
  /\ pc = "ua_filter_links"
  /\ IF ai <= Len(account_summaries)
       THEN \/ /\ Raised(FALSE)
               /\ UNCHANGED <<api, overviewVars, lists, uaVars, ga4Vars, loopVars, loadVars>>
            \/ /\ Called(FALSE, TRUE)
               /\ filter_list' = filter_list \o UaItems("filter_link", <<account_summaries[ai].id>>)
               /\ ai' = ai + 1
               /\ UNCHANGED <<pc, api, overviewVars, lists, account_summaries, property_entities,
                              ga4Vars, pi, vi, si, loadVars>>
       ELSE /\ lists' = SetKey(lists, "ua_filter_links", OrEmpty(Some(filter_list)))
            /\ pc' = "ua_segments"
            /\ filter_list' = <<>>
            /\ UNCHANGED <<api, overviewVars, account_summaries, property_entities, ga4Vars, loopVars,
                           callVars, loadVars>>

UaSegments ==
  /\ pc = "ua_segments"
  /\ \/ /\ Raised(FALSE)
        /\ UNCHANGED <<api, overviewVars, lists, uaVars, ga4Vars, loopVars, loadVars>>
     \/ /\ Called(FALSE, TRUE)
        /\ lists' = SetKey(lists, "ua_segments", OrEmpty(get_ua_segments))
        /\ pc' = "ua_property_level"
        /\ ai' = 1 /\ pi' = 1
        /\ property_entities' = EmptyPropertyEntities
        /\ UNCHANGED <<api, overviewVars, account_summaries, filter_list, ga4Vars, vi, si, loadVars>>

\* get_ua_property_level_settings: head of the two nested loops (lines 253-255)
\* and, once they are done, the assignments of lines 86-89.  Line 254 reads
\* account['webProperties']: an empty list is skipped, a missing key raises.
UaPropertyLevel ==
  /\ pc = "ua_property_level"
  /\ IF ai > Len(account_summaries)
       THEN /\ lists' = SetKey(SetKey(SetKey(SetKey(lists,
                          "ua_custom_dimensions", OrEmpty(Some(property_entities.cds))),
                          "ua_custom_metrics", OrEmpty(Some(property_entities.cms))),
                          "ua_audiences", OrEmpty(Some(property_entities.audiences))),
                          "ua_google_ads_links", OrEmpty(Some(property_entities.google_ads_links)))
            /\ pc' = "ga4_account_summaries"
            /\ ai' = 1 /\ pi' = 1
            /\ UNCHANGED <<api, overviewVars, uaVars, ga4Vars, vi, si, callVars, loadVars>>
       ELSE IF KeyError(account_summaries[ai], "webProperties")
         THEN /\ Failed
              /\ UNCHANGED <<api, overviewVars, lists, uaVars, ga4Vars, loopVars, loadVars>>
         ELSE IF pi > Len(account_summaries[ai].webProperties)
           THEN /\ ai' = ai + 1 /\ pi' = 1
                /\ UNCHANGED <<pc, api, overviewVars, lists, uaVars, ga4Vars, vi, si, callVars, loadVars>>
           ELSE /\ pc' = "ua_audiences"
                /\ UNCHANGED <<api, overviewVars, lists, uaVars, ga4Vars, loopVars, callVars, loadVars>>

\* one of the four list calls of a web property (lines 256-278)
UaPropertyCall(here, kind, field, next, lastOfProperty) ==
  /\ pc = here
  /\ \/ /\ Raised(FALSE)
        /\ UNCHANGED <<api, overviewVars, lists, uaVars, ga4Vars, loopVars, loadVars>>
     \/ /\ Called(FALSE, TRUE)
        /\ property_entities' =
             [property_entities EXCEPT ![field] =
                @ \o UaItems(kind, <<account_summaries[ai].id,
                                     account_summaries[ai].webProperties[pi].id>>)]
        /\ pc' = next
        /\ pi' = IF lastOfProperty THEN pi + 1 ELSE pi
        /\ UNCHANGED <<api, overviewVars, lists, account_summaries, filter_list, ga4Vars, ai, vi, si, loadVars>>

UaAudiences == UaPropertyCall("ua_audiences", "audience", "audiences", "ua_ads_links", FALSE)
UaAdsLinks == UaPropertyCall("ua_ads_links", "ads_link", "google_ads_links", "ua_cds", FALSE)
UaCustomDimensions == UaPropertyCall("ua_cds", "custom_dimension", "cds", "ua_cms", FALSE)
UaCustomMetrics == UaPropertyCall("ua_cms", "custom_metric", "cms", "ua_property_level", TRUE)

(***************************************************************************)
(* GA4 traversal (list_ga4_entities, lines 291-595)                        *)
(***************************************************************************)
\* a slip of the collecting: new items put in front
ExtendInFront(list, items) == items \o list

\* list.append / list.extend
Extend(list, items) == list \o items

\* a slip of the stamping: the display name taken from the wrong key
StampProperty(dict, property_summary) ==
  dict @@ [property |-> property_summary.property,
           property_display_name |-> property_summary.property]

\* the two ancestry keys every dict below property level ends with
Stamp(dict, property_summary) ==
  dict @@ [property |-> property_summary.property,
           property_display_name |-> property_summary.display_name]

\* the stream list calls in another order
StreamKindsWebFirst == <<"web", "android", "ios">>

\* the order in which the three stream list calls follow each other
\* (lines 373, 400, 427)
StreamKinds == <<"android", "ios", "web">>

StreamCollection(kind) ==
  CASE kind = "android" -> "androidAppDataStreams"
    [] kind = "ios" -> "iosAppDataStreams"
    [] kind = "web" -> "webDataStreams"

StreamKey(kind) ==
  CASE kind = "android" -> "android_app_data_streams"
    [] kind = "ios" -> "ios_app_data_streams"
    [] kind = "web" -> "web_data_streams"

\* a slip of the tagging: every secret tagged as that of a web stream
SecretTypeWeb(kind) == "web"

\* the 'type' of the secrets of a stream (lines 394, 421, 478)
SecretType(kind) ==
  CASE kind = "android" -> "android app"
    [] kind = "ios" -> "ios app"
    [] kind = "web" -> "web"

account_summary == entities.summaries[ai]
property_summary == account_summary.property_summaries[pi]

\* lines 307-321
Ga4AccountSummaries ==
  /\ pc = "ga4_account_summaries"
  /\ \/ /\ Raised(FALSE)
        /\ UNCHANGED <<api, overviewVars, lists, uaVars, ga4Vars, loopVars, loadVars>>
     \/ /\ Called(FALSE, TRUE)
        /\ entities' = [entities EXCEPT !.summaries =
             Extend(@, [k \in DOMAIN ApiAccountSummaries |->
               LET s == ApiAccountSummaries[k] IN
               [name |-> s.name, display_name |-> s.display_name, account |-> s.account,
                property_summaries |->
                  [i \in DOMAIN s.property_summaries |->
                    [property |-> s.property_summaries[i].property,
                     display_name |-> s.property_summaries[i].display_name]]]])]
        /\ pc' = "ga4_accounts"
        /\ UNCHANGED <<api, overviewVars, lists, uaVars, props, streams, data_retention_settings,
                       loopVars, loadVars>>

\* lines 322-332
Ga4Accounts ==
  /\ pc = "ga4_accounts"
  /\ \/ /\ Raised(FALSE)
        /\ UNCHANGED <<api, overviewVars, lists, uaVars, ga4Vars, loopVars, loadVars>>
     \/ /\ Called(FALSE, TRUE)
        /\ entities' = [entities EXCEPT !.accounts =
             Extend(@, [k \in DOMAIN ApiAccounts |->
               [name |-> ApiAccounts[k].name,
                display_name |-> ApiAccounts[k].display_name,
                create_time |-> ApiAccounts[k].create_time]])]
        /\ pc' = "ga4_list_properties"
        /\ ai' = 1
        /\ UNCHANGED <<api, overviewVars, lists, uaVars, props, streams, data_retention_settings,
                       pi, vi, si, loadVars>>

\* lines 93-108: the keys of lists taken from the dict list_ga4_entities returns
CopiedKeys ==
  << <<"ga4_account_summaries", "summaries">>,
     <<"ga4_accounts", "accounts">>,
     <<"ga4_properties", "properties">>,
     <<"ga4_android_app_data_streams", "android_app_data_streams">>,
     <<"ga4_measurement_protocol_secrets", "measurement_protocol_secrets">>,
     <<"ga4_conversion_events", "conversion_events">>,
     <<"ga4_custom_dimensions", "custom_dimensions">>,
     <<"ga4_custom_metrics", "custom_metrics">>,
     <<"ga4_firebase_links", "firebase_links">>,
     <<"ga4_google_ads_links", "google_ads_links">>,
     <<"ga4_ios_app_data_streams", "ios_app_data_streams">>,
     <<"ga4_web_data_streams", "web_data_streams">> >>

RECURSIVE CopyEntities(_, _, _)
CopyEntities(d, ga4_entities, n) ==
  IF n = 0 THEN d
  ELSE SetKey(CopyEntities(d, ga4_entities, n - 1),
              CopiedKeys[n][1], OrEmpty(Some(ga4_entities[CopiedKeys[n][2]])))

\* line 333-336: the next account summary and its list_properties call; after
\* the last one list_ga4_entities returns and lines 93-108 fill lists
Ga4ListProperties ==
  /\ pc = "ga4_list_properties"
  /\ IF ai <= Len(entities.summaries)
       THEN \/ /\ Raised(FALSE)
               /\ UNCHANGED <<api, overviewVars, lists, uaVars, ga4Vars, loopVars, loadVars>>
            \/ /\ Called(FALSE, FALSE)
               /\ props' = ApiProperties(account_summary.account)
               /\ pi' = 1
               /\ pc' = "ga4_property"
               /\ UNCHANGED <<api, overviewVars, lists, uaVars, entities, streams,
                              data_retention_settings, ai, vi, si, loadVars>>
       ELSE /\ lists' = CopyEntities(lists, entities, Len(CopiedKeys))
            /\ pc' = "load"
            /\ ki' = 1
            /\ UNCHANGED <<api, overviewVars, uaVars, ga4Vars, loopVars, callVars, bucket, jobs, result>>

\* lines 336-340: the next property of the pager and its data retention settings
Ga4Property ==
  /\ pc = "ga4_property"
  /\ IF pi <= Len(props)
       THEN \/ /\ Raised(TRUE)
               /\ UNCHANGED <<api, overviewVars, lists, uaVars, ga4Vars, loopVars, loadVars>>
            \/ /\ Called(TRUE, FALSE)
               /\ data_retention_settings' =
                    ApiSettings(props[pi].name \o <<"dataRetentionSettings">>)
               /\ pc' = "ga4_google_signals"
               /\ UNCHANGED <<api, overviewVars, lists, uaVars, entities, props, streams, loopVars, loadVars>>
       ELSE /\ pi' = 1
            /\ pc' = "ga4_property_summaries"
            /\ UNCHANGED <<api, overviewVars, lists, uaVars, ga4Vars, ai, vi, si, callVars, loadVars>>

\* lines 340-370
Ga4GoogleSignals ==
  /\ pc = "ga4_google_signals"
  /\ \/ /\ Raised(TRUE)
        /\ UNCHANGED <<api, overviewVars, lists, uaVars, ga4Vars, loopVars, loadVars>>
     \/ /\ Called(TRUE, FALSE)
        /\ LET prop == props[pi]
               google_signals_settings == ApiSettings(prop.name \o <<"googleSignalsSettings">>)
           IN entities' = [entities EXCEPT !.properties =
                Extend(@, <<[name |-> prop.name, create_time |-> prop.create_time,
                             parent |-> prop.parent, display_name |-> prop.display_name,
                             account |-> account_summary.account,
                             data_sharing_settings |-> data_retention_settings,
                             google_signals_settings |-> google_signals_settings]>>)]
        /\ pi' = pi + 1
        /\ pc' = "ga4_property"
        /\ UNCHANGED <<api, overviewVars, lists, uaVars, props, streams, data_retention_settings,
                       ai, vi, si, loadVars>>

\* line 371: the next property summary of the account summary
Ga4PropertySummaries ==
  /\ pc = "ga4_property_summaries"
  /\ IF pi <= Len(account_summary.property_summaries)
       THEN /\ pc' = "ga4_list_streams"
            /\ vi' = 1
            /\ UNCHANGED <<ai, pi, si>>
       ELSE /\ pc' = "ga4_list_properties"
            /\ ai' = ai + 1
            /\ UNCHANGED <<pi, vi, si>>
  /\ UNCHANGED <<api, overviewVars, lists, uaVars, ga4Vars, callVars, loadVars>>

\* lines 372-374, 399-401, 426-428: the list call of the next kind of stream
Ga4ListStreams ==
  /\ pc = "ga4_list_streams"
  /\ \/ /\ Raised(TRUE)
        /\ UNCHANGED <<api, overviewVars, lists, uaVars, ga4Vars, loopVars, loadVars>>
     \/ /\ Called(TRUE, FALSE)
        /\ streams' = ApiChildren(property_summary.property, StreamCollection(StreamKinds[vi]))
        /\ si' = 1
        /\ pc' = "ga4_stream"
        /\ UNCHANGED <<api, overviewVars, lists, uaVars, entities, props, data_retention_settings,
                       ai, pi, vi, loadVars>>

\* lines 375-398, 402-425, 432-483: the next stream of the pager is appended,
\* then its measurement protocol secrets are listed and appended
Ga4Stream ==
  /\ pc = "ga4_stream"
  /\ IF si <= Len(streams)
       THEN LET kind == StreamKinds[vi]
                stream_dict ==
                  Stamp([name |-> streams[si].name,
                         create_time |-> streams[si].create_time,
                         display_name |-> streams[si].display_name], property_summary)
                secrets == ApiSecrets(stream_dict.name)
                mps_dicts ==
                  [j \in DOMAIN secrets |->
                    Stamp([name |-> secrets[j].name,
                           display_name |-> secrets[j].display_name,
                           secret_value |-> secrets[j].secret_value,
                           stream_name |-> stream_dict.name,
                           type |-> SecretType(kind)], property_summary)]
                appended == [entities EXCEPT ![StreamKey(kind)] = Extend(@, <<stream_dict>>)]
            IN \/ /\ Raised(TRUE)
                  /\ entities' = appended
                  /\ UNCHANGED <<api, overviewVars, lists, uaVars, props, streams,
                                 data_retention_settings, loopVars, loadVars>>
               \/ /\ Called(TRUE, kind = "web" /\ secrets # <<>>)
                  /\ entities' = [appended EXCEPT !.measurement_protocol_secrets =
                                    Extend(@, mps_dicts)]
                  /\ si' = si + 1
                  /\ UNCHANGED <<pc, api, overviewVars, lists, uaVars, props, streams,
                                 data_retention_settings, ai, pi, vi, loadVars>>
       ELSE /\ IF vi < Len(StreamKinds)
                 THEN vi' = vi + 1 /\ pc' = "ga4_list_streams"
                 ELSE vi' = vi /\ pc' = "ga4_conversion_events"
            /\ UNCHANGED <<api, overviewVars, lists, uaVars, ga4Vars, ai, pi, si, callVars, loadVars>>

\* the dict built from an item of a property-level list call
ItemDict(collection, item) ==
  CASE collection = "conversionEvents" -> [name |-> item.name, create_time |-> item.create_time]
    [] collection = "customDimensions" -> [name |-> item.name, display_name |-> item.display_name]
    [] collection = "customMetrics" -> [name |-> item.name, display_name |-> item.display_name]
    [] collection = "googleAdsLinks" -> [name |-> item.name, create_time |-> item.create_time]
    [] collection = "firebaseLinks" -> [name |-> item.name, create_time |-> item.create_time]

\* lines 484-550: one of the five list calls that follow the streams
Ga4PropertyListing(here, collection, key, next, lastOfProperty) ==
  /\ pc = here
  /\ \/ /\ Raised(TRUE)
        /\ UNCHANGED <<api, overviewVars, lists, uaVars, ga4Vars, loopVars, loadVars>>
     \/ /\ Called(TRUE, FALSE)
        /\ LET items == ApiChildren(property_summary.property, collection)
           IN entities' = [entities EXCEPT ![key] =
                Extend(@, [j \in DOMAIN items |->
                             Stamp(ItemDict(collection, items[j]), property_summary)])]
        /\ pc' = next
        /\ pi' = IF lastOfProperty THEN pi + 1 ELSE pi
        /\ UNCHANGED <<api, overviewVars, lists, uaVars, props, streams, data_retention_settings,
                       ai, vi, si, loadVars>>

Ga4ConversionEvents ==
  Ga4PropertyListing("ga4_conversion_events", "conversionEvents", "conversion_events",
                     "ga4_custom_dimensions", FALSE)
Ga4CustomDimensions ==
  Ga4PropertyListing("ga4_custom_dimensions", "customDimensions", "custom_dimensions",
                     "ga4_custom_metrics", FALSE)
Ga4CustomMetrics ==
  Ga4PropertyListing("ga4_custom_metrics", "customMetrics", "custom_metrics",
                     "ga4_google_ads_links", FALSE)
Ga4GoogleAdsLinks ==
  Ga4PropertyListing("ga4_google_ads_links", "googleAdsLinks", "google_ads_links",
                     "ga4_firebase_links", FALSE)
Ga4FirebaseLinks ==
  Ga4PropertyListing("ga4_firebase_links", "firebaseLinks", "firebase_links",
                     "ga4_property_summaries", TRUE)

(***************************************************************************)
(* Staging and load (lines 110-115, 598-630)                               *)
(***************************************************************************)
\* json.dump(item, w, default=str): what json cannot encode goes through str
JsonDump(item) ==
  [k \in DOMAIN item |-> IF k = "create_time" THEN <<"str", item[k]>> ELSE item[k]]

\* the blob uploaded by create_gcs_json_file: one line per item
create_gcs_json_file(data, file_name) ==
  [name |-> file_name, lines |-> [i \in DOMAIN data |-> JsonDump(data[i])]]

\* a slip of the URI: a fixed object name
UriOfData(table_id) == <<"gs", "BUCKET_NAME", "data">>

\* line 626
Uri(table_id) == <<"gs", "BUCKET_NAME", table_id>>

\* the job of save_to_bigquery, as submitted
LoadJob(table_id) == [uri |-> Uri(table_id), table |-> table_id, state |-> "RUNNING"]

\* a slip of the guard: every key is staged
HasDataAlways(data) == data = data

\* line 112: `if data:`
HasData(data) == data # <<>>

\* lines 110-113 and 115: the next key of lists; a key with data is staged
LoadKey ==
  /\ pc = "load"
  /\ IF ki <= Len(lists)
       THEN IF HasData(lists[ki].data)
              THEN /\ bucket' = Append(bucket, create_gcs_json_file(lists[ki].data, lists[ki].key))
                   /\ pc' = "save_to_bigquery"
                   /\ UNCHANGED <<jobs, ki, result>>
              ELSE /\ ki' = ki + 1
                   /\ UNCHANGED <<pc, bucket, jobs, result>>
       ELSE /\ result' = "complete"
            /\ pc' = "done"
            /\ UNCHANGED <<bucket, jobs, ki>>
  /\ UNCHANGED <<api, overviewVars, lists, uaVars, ga4Vars, loopVars, callVars>>

\* lines 114, 622-629: the load job is submitted
SaveToBigquery ==
  /\ pc = "save_to_bigquery"
  /\ jobs' = Append(jobs, LoadJob(lists[ki].key))
  /\ pc' = "load_job_result"
  /\ UNCHANGED <<api, overviewVars, lists, uaVars, ga4Vars, loopVars, callVars, bucket, ki, result>>

\* line 630: load_job.result() returns when the job is done and raises when the
\* job ended with errors
LoadJobResult ==
  /\ pc = "load_job_result"
  /\ \/ /\ jobs' = [jobs EXCEPT ![Len(jobs)].state = "DONE"]
        /\ ki' = ki + 1
        /\ pc' = "load"
        /\ exc' = exc
     \/ /\ jobs' = [jobs EXCEPT ![Len(jobs)].state = "FAILED"]
        /\ pc' = "aborted"
        /\ exc' = pc
        /\ UNCHANGED ki
  /\ UNCHANGED <<api, overviewVars, lists, uaVars, ga4Vars, loopVars, unpaused, maxRun, bucket, result>>

Next ==
  \/ UaAccountSummaries \/ UaGoals \/ UaViews \/ UaFilters \/ UaFilterLinks
  \/ UaSegments \/ UaPropertyLevel \/ UaAudiences \/ UaAdsLinks
  \/ UaCustomDimensions \/ UaCustomMetrics
  \/ Ga4AccountSummaries \/ Ga4Accounts \/ Ga4ListProperties \/ Ga4Property
  \/ Ga4GoogleSignals \/ Ga4PropertySummaries \/ Ga4ListStreams \/ Ga4Stream
  \/ Ga4ConversionEvents \/ Ga4CustomDimensions \/ Ga4CustomMetrics
  \/ Ga4GoogleAdsLinks \/ Ga4FirebaseLinks
  \/ LoadKey \/ SaveToBigquery \/ LoadJobResult

Spec == Init /\ [][Next]_vars

TypeOK ==
  /\ pc \in {"ua_account_summaries", "ua_goals", "ua_views", "ua_filters",
             "ua_filter_links", "ua_segments", "ua_property_level", "ua_audiences",
             "ua_ads_links", "ua_cds", "ua_cms", "ga4_account_summaries",
             "ga4_accounts", "ga4_list_properties", "ga4_property",
             "ga4_google_signals", "ga4_property_summaries", "ga4_list_streams",
             "ga4_stream", "ga4_conversion_events", "ga4_custom_dimensions",
             "ga4_custom_metrics", "ga4_google_ads_links", "ga4_firebase_links",
             "load", "save_to_bigquery", "load_job_result", "done", "aborted"}
  /\ unpaused \in 0..2 /\ maxRun \in 0..2
  /\ result \in {"none", "complete"}

(***************************************************************************)
(* The property overview job                                               *)
(* (src/report_tables/property_overview/function/main.py, lines 28-186)    *)
(*                                                                         *)
(* The tables are sets of rows; a row carries the day of its partition.    *)
(* Of the query, the FROM clause, the joins of data_streams,               *)
(* google_ads_links and dv360_links, the GROUP BY and the columns computed *)
(* from these are modelled.  The other joins are LEFT JOINs and the        *)
(* modelled columns aggregate with DISTINCT, so the rows the other joins   *)
(* multiply do not change them.                                            *)
(***************************************************************************)
CURRENT_DATE == "today"

\* WHERE DATE(_PARTITIONTIME) = CURRENT_DATE()
Today(table) == {r \in table : r._PARTITIONTIME = CURRENT_DATE}

\* what a LEFT JOIN puts in the place of a row that is not there
NULL == [null |-> TRUE]

\* a = b in SQL is true only of two values that are there
SqlEq(row1, column1, row2, column2) ==
  row1 # NULL /\ row2 # NULL /\ row1[column1] = row2[column2]

\* rows LEFT JOIN table AS alias ON condition, where matched[l] are the rows
\* of the table for which the condition is true with row l
LeftJoin(rows, alias, matched) ==
  UNION {IF matched[l] = {} THEN {l @@ (alias :> NULL)}
                            ELSE {l @@ (alias :> r) : r \in matched[l]}
         : l \in rows}

\* lines 59-61 and 174-175: the day's account summaries, one row per property summary
FromSummaries ==
  UNION {{[summaries |-> s, property_summaries |-> s.property_summaries[i]] :
            i \in DOMAIN s.property_summaries} :
         s \in Today(warehouse.ga4_account_summaries)}

\* lines 74-81
data_streams ==
  {[property_id |-> r.property, type |-> r.type, id |-> r.name] :
     r \in Today(warehouse.ga4_data_streams)}

\* lines 102-108
google_ads_links ==
  {[property_id |-> r.property, customer_id |-> r.customer_id] :
     r \in Today(warehouse.ga4_google_ads_links)}

\* lines 112-118
dv360_links ==
  {[property_id |-> r.property, name |-> r.name] :
     r \in Today(warehouse.ga4_dv360_links)}

\* lines 59-120: the joins, with their ON conditions as written
Joined ==
  LET streamsJoined ==
        LeftJoin(FromSummaries, "data_streams",
          [l \in FromSummaries |->
            {r \in data_streams :
               SqlEq(l.property_summaries, "property", r, "property_id")}])
      adsJoined ==
        LeftJoin(streamsJoined, "google_ads_links",
          [l \in streamsJoined |->
            {r \in google_ads_links :
               SqlEq(l.property_summaries, "property", r, "property_id")}])
  IN LeftJoin(adsJoined, "dv360_links",
       [l \in adsJoined |->
         {r \in dv360_links :
            SqlEq(l.property_summaries, "property", l.google_ads_links, "property_id")}])

\* lines 31-34 and 176-177: the columns the rows are grouped by
GroupKey(j) ==
  [account_name |-> j.summaries.display_name,
   account_id |-> j.summaries.account,
   property_name |-> j.property_summaries.display_name,
   property_id |-> j.property_summaries.property]

RECURSIVE SumOf(_)
SumOf(values) ==
  IF values = {} THEN 0
  ELSE LET v == CHOOSE x \in values : TRUE IN v + SumOf(values \ {v})

\* SUM(DISTINCT CASE WHEN data_streams.type = type THEN 1 ELSE 0 END)
SumDistinctCase(group, type) ==
  SumOf({IF j.data_streams # NULL /\ j.data_streams.type = type THEN 1 ELSE 0 :
           j \in group})

\* COUNT(DISTINCT alias.column)
CountDistinct(group, alias, column) ==
  Cardinality({j[alias][column] : j \in {g \in group : g[alias] # NULL}})

\* lines 30-58 and 176-177: one row per group
QueryRows ==
  {LET group == {j \in Joined : GroupKey(j) = k}
       web == SumDistinctCase(group, "WEB_DATA_STREAM")
       android == SumDistinctCase(group, "ANDROID_APP_DATA_STREAM")
       ios == SumDistinctCase(group, "IOS_APP_DATA_STREAM")
       ads == CountDistinct(group, "google_ads_links", "customer_id")
       dv360 == CountDistinct(group, "dv360_links", "name")
   IN k @@ [number_of_web_streams |-> web,
            number_of_android_app_streams |-> android,
            number_of_ios_app_streams |-> ios,
            web_streams_created |-> web > 0,
            android_streams_created |-> android > 0,
            ios_streams_created |-> ios > 0,
            google_ads_linked |-> ads > 0,
            number_of_google_ads_links |-> ads,
            dv360_linked |-> dv360 > 0,
            number_of_dv360_links |-> dv360]
   : k \in {GroupKey(j) : j \in Joined}}

\* a slip of the job configuration: the table is replaced
WRITE_TRUNCATE == "WRITE_TRUNCATE"

\* line 182
write_disposition == "WRITE_APPEND"

\* what the query job does to its destination table
Write(table, rows) ==
  IF write_disposition = "WRITE_APPEND" THEN table (+) SetToBag(rows)
  ELSE SetToBag(rows)

\* lines 180-184: main submits the query job; the job ends with its rows
\* written to the destination table, or with an error and nothing written
Query ==
  /\ main_pc = "main"
  /\ runs < MaxRuns
  /\ \/ /\ query_job' = "DONE"
        /\ destination' = Write(destination, QueryRows)
     \/ /\ query_job' = "FAILED"
        /\ destination' = destination
  /\ main_pc' = "result"
  /\ UNCHANGED <<warehouse, runs>>
  /\ UNCHANGED <<pc, api, lists, uaVars, ga4Vars, loopVars, callVars, loadVars>>

\* lines 185-186: query_job.result() returns and main returns 'complete', or it
\* raises; either way the invocation is over
QueryJobResult ==
  /\ main_pc = "result"
  /\ main_pc' = "main"
  /\ runs' = runs + 1
  /\ UNCHANGED <<warehouse, destination, query_job>>
  /\ UNCHANGED <<pc, api, lists, uaVars, ga4Vars, loopVars, callVars, loadVars>>

\* the rows of one day's partitions: an account summary with np property
\* summaries; property 1 has the given numbers of streams of each type, every
\* other property one stream of type `other` (if any); property 1 has `ads`
\* Google Ads links; property dvAt has `dv360` DV360 links
StreamTypes == <<"WEB_DATA_STREAM", "ANDROID_APP_DATA_STREAM", "IOS_APP_DATA_STREAM">>

StreamRows(p, type, n, day) ==
  {[property |-> PropertyPath(p), type |-> type,
    name |-> PropertyPath(p) \o <<"dataStreams", day, type, k>>,
    _PARTITIONTIME |-> day] : k \in 1..n}

Landed(np, counts, other, ads, dv360, dvAt, day) ==
  [ga4_account_summaries |->
     IF np = 0 THEN {}
     ELSE {[name |-> <<"accountSummaries", 1>>,
            display_name |-> <<"Account", 1>>,
            account |-> AccountPath(1),
            property_summaries |->
              [i \in 1..np |-> [property |-> PropertyPath(Ids(np)[i]),
                                display_name |-> <<"Property", Ids(np)[i]>>]],
            _PARTITIONTIME |-> day]},
   ga4_data_streams |->
     UNION {StreamRows(1, StreamTypes[t], counts[t], day) : t \in DOMAIN StreamTypes}
       \cup UNION {IF other = "none" THEN {} ELSE StreamRows(p, other, 1, day) :
                     p \in 2..np},
   ga4_google_ads_links |->
     {[property |-> PropertyPath(1), customer_id |-> <<"customer", day, k>>,
       _PARTITIONTIME |-> day] : k \in 1..ads},
   ga4_dv360_links |->
     {[property |-> PropertyPath(dvAt),
       name |-> PropertyPath(dvAt) \o <<"displayVideo360AdvertiserLinks", day, k>>,
       _PARTITIONTIME |-> day] : k \in 1..dv360}]

\* two days' partitions in the same tables
Both(w1, w2) == [t \in DOMAIN w1 |-> w1[t] \cup w2[t]]

\* The job is invoked against the tables as landed: the partitions of the day,
\* and (stale) or not those of the day before, which hold a property with one
\* web stream, one Google Ads link and one DV360 link.
OverviewInit ==
  /\ \E np \in 1..MaxOverviewProps, web \in 0..MaxStreams, android \in 0..MaxStreams,
        ios \in 0..1, other \in {"none"} \cup {StreamTypes[t] : t \in DOMAIN StreamTypes},
        ads \in 0..MaxLinks, dv360 \in 0..MaxLinks, dvAt \in 1..MaxOverviewProps,
        stale \in BOOLEAN :
       /\ np = 1 => other = "none"
       /\ dvAt \in {1, np}
       /\ dv360 = 0 => dvAt = 1
       /\ warehouse =
            Both(Landed(np, <<web, android, ios>>, other, ads, dv360, dvAt, CURRENT_DATE),
                 IF stale
                   THEN Landed(1, <<1, 0, 0>>, "none", 1, 1, 1, "yesterday")
                   ELSE Landed(0, <<0, 0, 0>>, "none", 0, 0, 1, "yesterday"))
  /\ destination = EmptyBag
  /\ query_job = "none"
  /\ runs = 0
  /\ main_pc = "main"
  /\ api = [uaAccounts |-> 0, items |-> 0, order |-> <<>>,
            nProps |-> [a \in 1..MaxAccounts |-> 0], bare |-> 0, omitted |-> FALSE]
  /\ Entered

OverviewNext == Query \/ QueryJobResult

OverviewSpec == OverviewInit /\ [][OverviewNext]_vars

OverviewTypeOK ==
  /\ main_pc \in {"main", "result"}
  /\ query_job \in {"none", "DONE", "FAILED"}
  /\ runs \in 0..MaxRuns
  /\ IsABag(destination)

(***************************************************************************)
(* Properties                                                              *)
(***************************************************************************)
\* the remote calls made for the property summaries of an account summary
\* (lines 371-550)
Ga4SubResourceCalls ==
  {"ga4_list_streams", "ga4_stream", "ga4_conversion_events", "ga4_custom_dimensions",
   "ga4_custom_metrics", "ga4_google_ads_links", "ga4_firebase_links"}

\* the collections filled by one list call per property: entities key, API collection
PropertyCollections ==
  << <<"android_app_data_streams", "androidAppDataStreams">>,
     <<"ios_app_data_streams", "iosAppDataStreams">>,
     <<"web_data_streams", "webDataStreams">>,
     <<"conversion_events", "conversionEvents">>,
     <<"custom_dimensions", "customDimensions">>,
     <<"custom_metrics", "customMetrics">>,
     <<"google_ads_links", "googleAdsLinks">>,
     <<"firebase_links", "firebaseLinks">> >>

BelowPropertyKeys ==
  {PropertyCollections[c][1] : c \in DOMAIN PropertyCollections}
    \cup {"measurement_protocol_secrets"}

\* every property summary the Admin API holds
SummaryProperties ==
  UNION {{ApiPropertySummaries(api.order[k])[i].property :
            i \in DOMAIN ApiPropertySummaries(api.order[k])} : k \in DOMAIN api.order}

HasRecord(key, name) == \E i \in DOMAIN entities[key] : entities[key][i].name = name

\* the property of the resource a record was made from: the parent its name starts with
ListedUnder(record) == SubSeq(record.name, 1, 2)

\* C1: per-account isolation.  When a remote call made for the property
\* summaries of an account summary raises, the run is not aborted: the
\* traversal goes on (with the next account summary) and list_ga4_entities
\* still returns.
C1_PerAccountIsolation ==
  exc \in Ga4SubResourceCalls => pc # "aborted"

\* the property whose sub-resource call raised
FailedProperty == entities.summaries[ai].property_summaries[pi].property

\* the place of a property-level list call in the order of the calls of one property
CallRank(place) ==
  CASE place \in {"ga4_list_streams", "ga4_stream"} -> 1
    [] place = "ga4_conversion_events" -> 4
    [] place = "ga4_custom_dimensions" -> 5
    [] place = "ga4_custom_metrics" -> 6
    [] place = "ga4_google_ads_links" -> 7
    [] place = "ga4_firebase_links" -> 8

\* C2: branch isolation per property.  In a run where a sub-resource listing
\* of property P raised, the collections hold the records of every other
\* property the API holds, and no record of P from the failing call or a
\* later one.
C2_BranchIsolation ==
  exc \in Ga4SubResourceCalls =>
    /\ \A Q \in SummaryProperties \ {FailedProperty} :
         \A c \in DOMAIN PropertyCollections :
           \A j \in DOMAIN ApiChildren(Q, PropertyCollections[c][2]) :
             HasRecord(PropertyCollections[c][1],
                       ApiChildren(Q, PropertyCollections[c][2])[j].name)
    /\ \A c \in DOMAIN PropertyCollections :
         c >= 4 /\ c >= CallRank(exc) =>
           \A i \in DOMAIN entities[PropertyCollections[c][1]] :
             ListedUnder(entities[PropertyCollections[c][1]][i]) # FailedProperty

\* C3: ancestry stamping.  Every record of a collection below property level
\* carries the 'property' and the 'display_name' of the property summary it
\* was listed under as its 'property' and 'property_display_name'.
C3_AncestryStamping ==
  \A key \in BelowPropertyKeys :
    \A i \in DOMAIN entities[key] :
      \E a \in DOMAIN entities.summaries :
        \E p \in DOMAIN entities.summaries[a].property_summaries :
          LET summary == entities.summaries[a].property_summaries[p]
              record == entities[key][i]
          IN /\ summary.property = ListedUnder(record)
             /\ record.property = summary.property
             /\ record.property_display_name = summary.display_name

\* secrets and links of two properties have been collected
C3_Witness ==
  /\ \E i, j \in DOMAIN entities.measurement_protocol_secrets :
       entities.measurement_protocol_secrets[i].property
         # entities.measurement_protocol_secrets[j].property
  /\ \E i, j \in DOMAIN entities.firebase_links :
       entities.firebase_links[i].property # entities.firebase_links[j].property

\* how often create_gcs_json_file uploaded under a name, and how many load
\* jobs were submitted for a table
Uploads(key) == Cardinality({b \in DOMAIN bucket : bucket[b].name = key})
Loads(key) == Cardinality({j \in DOMAIN jobs : jobs[j].table = key})

\* C4: empty-collection skip.  A key whose collection is empty is never
\* staged and never loaded; no key is staged or loaded twice; every key with
\* records that the loop of lines 110-114 has passed (all of them when
\* 'complete' is returned) was staged once and loaded once.
C4_EmptyCollectionSkip ==
  /\ \A i \in DOMAIN lists :
       /\ lists[i].data = <<>> => Uploads(lists[i].key) = 0 /\ Loads(lists[i].key) = 0
       /\ Uploads(lists[i].key) <= 1 /\ Loads(lists[i].key) <= 1
       /\ i < ki /\ lists[i].data # <<>> =>
            Uploads(lists[i].key) = 1 /\ Loads(lists[i].key) = 1
  /\ \A b \in DOMAIN bucket : HasKey(lists, bucket[b].name)
  /\ \A j \in DOMAIN jobs : HasKey(lists, jobs[j].table)
  /\ result = "complete" => ki = Len(lists) + 1

\* a completed run that loaded some collections and skipped empty ones
C4_Witness ==
  /\ result = "complete"
  /\ Len(jobs) >= 3
  /\ \E i \in DOMAIN lists : lists[i].data = <<>> /\ lists[i].key # "ua_segments"

\* C5: a load error on one type does not stop the others.  When a load job
\* ended with errors the loader does not raise: the run goes on with the
\* remaining keys.
C5_LoadErrorContinues ==
  \A j \in DOMAIN jobs : jobs[j].state = "FAILED" => pc # "aborted"

\* list_ga4_entities has returned and lines 93-108 have run
ListsBuilt ==
  pc \in {"load", "save_to_bigquery", "load_job_result", "done"} \/ exc = "load_job_result"

\* the place of a property in the order the API returned things: the place of
\* its account summary, then its place among the property summaries of it
AcctPos(a) == CHOOSE k \in DOMAIN api.order : api.order[k] = a
PropPos(property) ==
  CHOOSE i \in DOMAIN ApiPropertySummaries(property[2] \div 10) :
    ApiPropertySummaries(property[2] \div 10)[i].property = property
PropertyPos(property) == <<AcctPos(property[2] \div 10), PropPos(property)>>

LexLess(u, v) ==
  \E k \in DOMAIN u : u[k] < v[k] /\ \A m \in 1..(k - 1) : u[m] = v[m]

Names(seq) == [i \in DOMAIN seq |-> seq[i].name]
IsPrefix(s, t) == Len(s) <= Len(t) /\ SubSeq(t, 1, Len(s)) = s

\* the names collected so far are the first of those returned, in their order,
\* and all of them once the traversal is done
InOrder(collected, returned) ==
  /\ IsPrefix(collected, returned)
  /\ ListsBuilt => Len(collected) = Len(returned)

RECURSIVE Flatten(_)
Flatten(seqs) == IF seqs = <<>> THEN <<>> ELSE Head(seqs) \o Flatten(Tail(seqs))

\* what the API returns, account summary by account summary, property (summary)
\* by property (summary), item by item
ReturnedProperties ==
  Flatten([k \in DOMAIN api.order |-> Names(ApiProperties(AccountPath(api.order[k])))])

Returned(collection) ==
  Flatten([k \in DOMAIN api.order |->
    LET summaries == ApiPropertySummaries(api.order[k])
    IN Flatten([i \in DOMAIN summaries |->
         LET items == ApiChildren(summaries[i].property, collection)
         IN Names(items)])])

ReturnedSecrets(collection) ==
  Flatten([k \in DOMAIN api.order |->
    LET summaries == ApiPropertySummaries(api.order[k])
    IN Flatten([i \in DOMAIN summaries |->
         LET items == ApiChildren(summaries[i].property, collection)
         IN Flatten([j \in DOMAIN items |->
              LET secrets == ApiSecrets(items[j].name) IN Names(secrets)])])])

OfStreams(secrets, collection) ==
  SelectSeq(secrets, LAMBDA name : name[3] = collection)

\* C6: order preservation.  The records of a collection follow each other as
\* the API returned them (account summaries, then properties or property
\* summaries of the account, then the items of a list call); after the
\* traversal nothing the API returned is missing; lists holds the collections
\* as collected and every staged file has one line per record, in the order
\* of the collection.
C6_OrderPreservation ==
  /\ InOrder(Names(entities.summaries), Names(ApiAccountSummaries))
  /\ InOrder(Names(entities.accounts), Names(ApiAccounts))
  /\ InOrder(Names(entities.properties), ReturnedProperties)
  /\ \A c \in DOMAIN PropertyCollections :
       InOrder(Names(entities[PropertyCollections[c][1]]),
               Returned(PropertyCollections[c][2]))
  /\ LET collected == Names(entities.measurement_protocol_secrets)
     IN \A c \in 1..3 :
          InOrder(OfStreams(collected, PropertyCollections[c][2]),
                  ReturnedSecrets(PropertyCollections[c][2]))
  /\ \A i \in DOMAIN entities.measurement_protocol_secrets :
       i > 1 =>
         LET r1 == entities.measurement_protocol_secrets[i - 1]
             r2 == entities.measurement_protocol_secrets[i]
         IN \/ ListedUnder(r1) = ListedUnder(r2)
            \/ LexLess(PropertyPos(ListedUnder(r1)), PropertyPos(ListedUnder(r2)))
  /\ ListsBuilt =>
       \A n \in DOMAIN CopiedKeys :
         GetKey(lists, CopiedKeys[n][1]) = entities[CopiedKeys[n][2]]
  /\ \A b \in DOMAIN bucket :
       LET data == GetKey(lists, bucket[b].name)
       IN /\ Len(bucket[b].lines) = Len(data)
          /\ \A i \in DOMAIN data : bucket[b].lines[i] = JsonDump(data[i])

\* files of collections with several records of several properties were staged
C6_Witness ==
  /\ result = "complete"
  /\ \E b \in DOMAIN bucket :
       /\ bucket[b].name = "ga4_measurement_protocol_secrets"
       /\ \E i, j \in DOMAIN bucket[b].lines :
            /\ bucket[b].lines[i].property # bucket[b].lines[j].property
            /\ bucket[b].lines[i].property[2] \div 10 # bucket[b].lines[j].property[2] \div 10
  /\ \E b \in DOMAIN bucket :
       bucket[b].name = "ga4_properties" /\ Len(bucket[b].lines) >= 3

\* C7: rate limiting.  Between two consecutive remote calls of the UA and GA4
\* traversals there is at least one time.sleep(REQUEST_DELAY).
C7_RateLimited == maxRun <= 1

\* the key of lists for a key of the dict of list_ga4_entities (lines 93-108)
Ga4ListsKey(key) ==
  CASE key = "summaries" -> "ga4_account_summaries"
    [] key = "accounts" -> "ga4_accounts"
    [] key = "properties" -> "ga4_properties"
    [] key = "android_app_data_streams" -> "ga4_android_app_data_streams"
    [] key = "measurement_protocol_secrets" -> "ga4_measurement_protocol_secrets"
    [] key = "conversion_events" -> "ga4_conversion_events"
    [] key = "custom_dimensions" -> "ga4_custom_dimensions"
    [] key = "custom_metrics" -> "ga4_custom_metrics"
    [] key = "dv360_link_proposals" -> "ga4_dv360_link_proposals"
    [] key = "dv360_links" -> "ga4_dv360_links"
    [] key = "firebase_links" -> "ga4_firebase_links"
    [] key = "google_ads_links" -> "ga4_google_ads_links"
    [] key = "ios_app_data_streams" -> "ga4_ios_app_data_streams"
    [] key = "web_data_streams" -> "ga4_web_data_streams"

UaKeys ==
  {"ua_account_summaries", "ua_goals", "ua_views", "ua_filters", "ua_filter_links",
   "ua_segments", "ua_custom_dimensions", "ua_custom_metrics", "ua_audiences",
   "ua_google_ads_links"}

\* C8: aggregator key completeness.  Once built, lists has every key of the UA
\* traversal and a key for every key of the dict list_ga4_entities returned.
C8_KeyCompleteness ==
  ListsBuilt =>
    /\ UaKeys \subseteq Keys(lists)
    /\ \A key \in DOMAIN entities : Ga4ListsKey(key) \in Keys(lists)

\* the keys of lists that have records, in the order of the dict
RECURSIVE KeysWithData(_)
KeysWithData(d) ==
  IF d = <<>> THEN <<>>
  ELSE (IF Head(d).data # <<>> THEN <<Head(d).key>> ELSE <<>>) \o KeysWithData(Tail(d))

\* C9: staging-then-load protocol.  Nothing is staged or loaded before both
\* traversals are done; the keys with records are taken in turn; the file of
\* key K is uploaded under K before the job for K is submitted; the job reads
\* the URI of K and targets table K; it is awaited before the next key is
\* taken and before 'complete' is returned.
C9_StagingThenLoad ==
  /\ bucket # <<>> \/ jobs # <<>> => ListsBuilt
  /\ Len(jobs) <= Len(bucket) /\ Len(bucket) <= Len(jobs) + 1
  /\ Len(bucket) <= Len(KeysWithData(lists))
  /\ \A b \in DOMAIN bucket : bucket[b].name = KeysWithData(lists)[b]
  /\ \A j \in DOMAIN jobs :
       /\ jobs[j].table = bucket[j].name
       /\ jobs[j].uri = <<"gs", "BUCKET_NAME", bucket[j].name>>
       /\ j < Len(jobs) \/ Len(bucket) > Len(jobs) \/ result = "complete" =>
            jobs[j].state = "DONE"
  /\ result = "complete" => Len(jobs) = Len(KeysWithData(lists))

\* a completed run with several load jobs
C9_Witness ==
  /\ result = "complete"
  /\ Len(jobs) >= 4
  /\ \E j \in DOMAIN jobs : jobs[j].table = "ga4_web_data_streams"

\* the secrets of one property, by 'type'
WebFirst(type) ==
  CASE type = "web" -> 1 [] type = "android app" -> 2 [] type = "ios app" -> 3
AndroidFirst(type) ==
  CASE type = "android app" -> 1 [] type = "ios app" -> 2 [] type = "web" -> 3

\* the secrets of a property follow each other, property after property, and
\* within a property their 'type' never goes back in the given ranking
SecretsRanked(Rank(_)) ==
  \A i \in DOMAIN entities.measurement_protocol_secrets :
    i > 1 =>
      LET r1 == entities.measurement_protocol_secrets[i - 1]
          r2 == entities.measurement_protocol_secrets[i]
      IN IF r1.property = r2.property
           THEN Rank(r1.type) <= Rank(r2.type)
           ELSE LexLess(PropertyPos(r1.property), PropertyPos(r2.property))

\* C10 as stated: within one property the secrets of web streams come first,
\* those of android streams second, those of iOS streams last.
C10_WebAndroidIos == SecretsRanked(WebFirst)

\* C10 as amended: within one property the secrets of android streams come
\* first, those of iOS streams second, those of web streams last.
C10_AndroidIosWeb == SecretsRanked(AndroidFirst)

\* one property has secrets of streams of all three kinds
C10_Witness ==
  \E i, j, k \in DOMAIN entities.measurement_protocol_secrets :
    /\ entities.measurement_protocol_secrets[i].type = "android app"
    /\ entities.measurement_protocol_secrets[j].type = "ios app"
    /\ entities.measurement_protocol_secrets[k].type = "web"
    /\ entities.measurement_protocol_secrets[i].property
         = entities.measurement_protocol_secrets[j].property
    /\ entities.measurement_protocol_secrets[j].property
         = entities.measurement_protocol_secrets[k].property

\* an account summary with no property below it: no 'webProperties' key or an
\* empty list (UA), an empty list of property summaries (GA4)
NoWebProperties(account) ==
  KeyError(account, "webProperties") \/ account.webProperties = <<>>

\* C11: null property-summary guard.  An account summary whose list of web
\* properties (UA) or of property summaries (GA4) is empty or absent is
\* skipped without an error: the step taken at it goes to the next account
\* summary.
C11_NullPropertySummaryGuard ==
  [][/\ (/\ pc = "ua_property_level"
         /\ ai <= Len(account_summaries)
         /\ NoWebProperties(account_summaries[ai]))
          => (pc' = "ua_property_level" /\ ai' = ai + 1)
     /\ (/\ pc = "ga4_property_summaries"
         /\ account_summary.property_summaries = <<>>)
          => (pc' = "ga4_list_properties" /\ ai' = ai + 1)]_vars

\* C12: the aggregation output is append-only.  A step of the overview job
\* leaves every row of the destination table in it; the step of a query job
\* that ends well adds the rows computed by that run, each once more, so that
\* after n such runs the table holds the rows of all n runs.
C12_AppendOnly ==
  [][/\ destination \sqsubseteq destination'
     /\ (main_pc = "main" /\ main_pc' = "result" /\ query_job' = "DONE")
          => destination' = destination (+) SetToBag(QueryRows)]_vars

\* two invocations have ended and a row is in the table twice
C12_Witness ==
  /\ runs = 2
  /\ \E row \in BagToSet(destination) : CopiesIn(row, destination) = 2

\* the data-stream records of a type a property has in the day's partition
StreamsOfType(property, type) ==
  {r \in Today(warehouse.ga4_data_streams) : r.property = property /\ r.type = type}

\* C13: stream counts.  In the row written for a property the three
\* number_of_..._streams columns are the numbers of the property's data-stream
\* records of type WEB_DATA_STREAM, ANDROID_APP_DATA_STREAM and
\* IOS_APP_DATA_STREAM in the day's partition.
C13_StreamCounts ==
  \A row \in BagToSet(destination) :
    /\ row.number_of_web_streams
         = Cardinality(StreamsOfType(row.property_id, "WEB_DATA_STREAM"))
    /\ row.number_of_android_app_streams
         = Cardinality(StreamsOfType(row.property_id, "ANDROID_APP_DATA_STREAM"))
    /\ row.number_of_ios_app_streams
         = Cardinality(StreamsOfType(row.property_id, "IOS_APP_DATA_STREAM"))

\* the names of the DV360 links a property has in the day's partition
Dv360LinksOf(property) ==
  {r.name : r \in {x \in Today(warehouse.ga4_dv360_links) : x.property = property}}

\* C14: the DV360 link count is per property.  In the row written for a
\* property number_of_dv360_links is the number of distinct DV360 link names
\* of that property in the day's partition, and dv360_linked says whether
\* there is one.
C14_Dv360PerProperty ==
  \A row \in BagToSet(destination) :
    /\ row.number_of_dv360_links = Cardinality(Dv360LinksOf(row.property_id))
    /\ row.dv360_linked = (Cardinality(Dv360LinksOf(row.property_id)) > 0)

\* the stream collection a 'type' of secret names
TypeCollection(type) ==
  CASE type = "web" -> "web_data_streams"
    [] type = "android app" -> "android_app_data_streams"
    [] type = "ios app" -> "ios_app_data_streams"

\* C15: secret-to-stream linkage.  Every measurement protocol secret record
\* was listed with a parent that is the name of a data-stream record already
\* in one of the three stream collections, of the same property; its
\* 'stream_name' is that stream's 'name' and its 'type' names the collection
\* that holds the stream.
C15_SecretToStream ==
  \A i \in DOMAIN entities.measurement_protocol_secrets :
    LET secret == entities.measurement_protocol_secrets[i]
    IN /\ secret.type \in {"web", "android app", "ios app"}
       /\ \E j \in DOMAIN entities[TypeCollection(secret.type)] :
            LET stream == entities[TypeCollection(secret.type)][j]
            IN /\ stream.name = secret.stream_name
               /\ stream.property = secret.property
               /\ secret.name = stream.name \o SubSeq(secret.name, Len(stream.name) + 1,
                                                      Len(secret.name))
               /\ secret.name[Len(stream.name) + 1] = "measurementProtocolSecrets"

\* secrets of an iOS stream and of a web stream of one property, and two
\* secrets of one stream, have been collected
C15_Witness ==
  /\ \E i, j \in DOMAIN entities.measurement_protocol_secrets :
       /\ entities.measurement_protocol_secrets[i].type = "ios app"
       /\ entities.measurement_protocol_secrets[j].type = "web"
       /\ entities.measurement_protocol_secrets[i].property
            = entities.measurement_protocol_secrets[j].property
  /\ \E i, j \in DOMAIN entities.measurement_protocol_secrets :
       /\ i # j
       /\ entities.measurement_protocol_secrets[i].stream_name
            = entities.measurement_protocol_secrets[j].stream_name

\* the web properties of a UA account summary
WebPropertiesOf(account) ==
  IF KeyError(account, "webProperties") THEN <<>> ELSE account.webProperties

\* what the Management API list calls made for a UA collection return, in the
\* order of the calls
UaReturned(key) ==
  LET PerAccount(kind) ==
        Flatten([k \in DOMAIN UaAccountItems |-> UaItems(kind, <<UaAccountItems[k].id>>)])
      PerProperty(kind) ==
        Flatten([k \in DOMAIN UaAccountItems |->
          Flatten([i \in DOMAIN WebPropertiesOf(UaAccountItems[k]) |->
            UaItems(kind, <<UaAccountItems[k].id,
                            WebPropertiesOf(UaAccountItems[k])[i].id>>)])])
  IN CASE key = "ua_account_summaries" -> UaAccountItems
       [] key = "ua_goals" -> UaItems("goal", <<>>)
       [] key = "ua_views" -> UaItems("view", <<>>)
       [] key = "ua_filters" -> PerAccount("filter")
       [] key = "ua_filter_links" -> PerAccount("filter_link")
       [] key = "ua_segments" -> UaItems("segment", <<>>)
       [] key = "ua_custom_dimensions" -> PerProperty("custom_dimension")
       [] key = "ua_custom_metrics" -> PerProperty("custom_metric")
       [] key = "ua_audiences" -> PerProperty("audience")
       [] key = "ua_google_ads_links" -> PerProperty("ads_link")

\* C16: the UA collections are complete.  Each UA collection of lists holds
\* exactly the items the Management API list calls made for it returned; a
\* run that returns 'complete' has loaded every UA collection for which items
\* were returned, 'ua_segments' among them.
C16_UaCollectionsComplete ==
  \A key \in UaKeys :
    /\ HasKey(lists, key) => GetKey(lists, key) = UaReturned(key)
    /\ result = "complete" /\ UaReturned(key) # <<>> => Loads(key) = 1

\* lines 60-170 of the property overview job: the tables its query reads
QueryTables ==
  {"ga4_account_summaries", "ga4_properties", "ga4_data_streams",
   "ga4_conversion_events", "ga4_google_ads_links", "ga4_dv360_links",
   "ga4_firebase_links", "ga4_custom_dimensions", "ga4_custom_metrics",
   "ga4_measurement_protocol_secrets", "ga4_audiences"}

\* C17: producer/consumer table agreement.  Every table the property overview
\* query reads is a key of lists, that is a table ga_settings_download loads
\* when the key has records.
C17_TableAgreement ==
  ListsBuilt => QueryTables \subseteq Keys(lists)
====
